---- MODULE Spec2Model ----
(***************************************************************************)
(* Model of the MPU-6050 driver of src/src/mpu6050.rs and the error type   *)
(* of src/src/errors.rs.                                                   *)
(*                                                                         *)
(* The driver facade (Mpu6050) owns one I2C handle.  Every facade          *)
(* operation is an async fn; its suspension points are the transport       *)
(* operations (write_async, write_read_async) and the timer of wake.  The  *)
(* model has one action per facade entry point (Call...) and one action    *)
(* per suspension point of the bodies; pc is the position of the call in   *)
(* flight.  The bus and the device behind it are the environment: a        *)
(* transaction either succeeds or fails with a bus fault, and the identity *)
(* read may return any byte.                                               *)
(***************************************************************************)
EXTENDS Integers, Sequences, FiniteSets, TLC

VARIABLES
    regs,     \* device registers PWR_MGMT_1, ACCEL_CONFIG, GYRO_CONFIG
    pre,      \* the device registers as they were when the call started
    op,       \* facade operation in flight ("none" when no call is active)
    arg,      \* arguments of the operation in flight
    pc,       \* position of the operation in flight
    result,   \* Result<..> returned by the last call
    trace,    \* transport operations and timer expiries of the call, in order
    elapsed   \* ticks the timer of wake has been pending

vars == <<regs, pre, op, arg, pc, result, trace, elapsed>>

(***************************************************************************)
(* Bounds of the model.                                                    *)
(***************************************************************************)
MaxDelay == 1
MaxOverrun == 1

Delays == 0..MaxDelay
MaxElapsed == MaxDelay + MaxOverrun

(***************************************************************************)
(* Constants of src/src/mpu6050.rs.                                        *)
(***************************************************************************)
ADDR == 208
DEFAULT_SLAVE_ADDR == 104
GYRO_CONFIG == 27
ACCEL_CONFIG == 28
PWR_MGMT_1 == 107
WHO_AM_I == 117

Byte == 0..255
Bool == {FALSE, TRUE}

(***************************************************************************)
(* BitfieldSpecifier enums: a variant is encoded as its discriminant.      *)
(***************************************************************************)
ClockSourceVariants ==
    <<"Internal8MHz", "PllXAxis", "PllYAxis", "PllZAxis",
      "PllExternal32768kHz", "PllExternal192kHz", "Reserved", "StopClockReset">>
AccelRangeVariants == <<"G2", "G4", "G8", "G16">>
GyroRangeVariants == <<"D250", "D500", "D1000", "D2000">>

ClockSource == {ClockSourceVariants[i] : i \in 1..Len(ClockSourceVariants)}
AccelRange == {AccelRangeVariants[i] : i \in 1..Len(AccelRangeVariants)}
GyroRange == {GyroRangeVariants[i] : i \in 1..Len(GyroRangeVariants)}

\* into_bytes of a derived BitfieldSpecifier: the discriminant of the variant
IntoBits(variants, v) == (CHOOSE i \in 1..Len(variants) : variants[i] = v) - 1
\* from_bytes of a derived BitfieldSpecifier: the variant with that discriminant
FromBits(variants, b) == variants[b + 1]
BoolBits(b) == IF b THEN 1 ELSE 0
BitsBool(n) == n # 0

(***************************************************************************)
(* #[bitfield] structs: fields are packed from the least significant bit   *)
(* in declaration order.  A field is (offset, width).                      *)
(***************************************************************************)
Pow2(n) == IF n = 0 THEN 1 ELSE IF n = 1 THEN 2 ELSE IF n = 2 THEN 4
           ELSE IF n = 3 THEN 8 ELSE IF n = 4 THEN 16 ELSE IF n = 5 THEN 32
           ELSE IF n = 6 THEN 64 ELSE IF n = 7 THEN 128 ELSE 256

\* generated getter: the bits of the field
GetBits(byte, off, width) == (byte \div Pow2(off)) % Pow2(width)
\* generated with_<field>: the byte with only that field replaced
WithBits(byte, off, width, v) ==
    byte - GetBits(byte, off, width) * Pow2(off) + (v % Pow2(width)) * Pow2(off)
Bit(byte, n) == GetBits(byte, n, 1)

\* PwrMgmt1: clksel(3) temp_dis(1) skip(1) cycle(1) sleep(1) device_reset(1)
PwrMgmt1_new == 0
PwrMgmt1_with_clksel(b, v) == WithBits(b, 0, 3, IntoBits(ClockSourceVariants, v))
\* with_temp_dis one bit too high, as if the skipped bit came first
PwrMgmt1_with_temp_dis_bit4(b, v) == WithBits(b, 4, 1, BoolBits(v))
PwrMgmt1_with_temp_dis(b, v) == WithBits(b, 3, 1, BoolBits(v))
\* with_cycle one bit too low, on the skipped bit
PwrMgmt1_with_cycle_bit4(b, v) == WithBits(b, 4, 1, BoolBits(v))
PwrMgmt1_with_cycle(b, v) == WithBits(b, 5, 1, BoolBits(v))
PwrMgmt1_with_sleep(b, v) == WithBits(b, 6, 1, BoolBits(v))
\* with_device_reset for a struct packed from the most significant bit
PwrMgmt1_with_device_reset_bit0(b, v) == WithBits(b, 0, 1, BoolBits(v))
PwrMgmt1_with_device_reset(b, v) == WithBits(b, 7, 1, BoolBits(v))

\* AccelConfig: skip(3) afs_sel(2) za_st(1) ya_st(1) xa_st(1)
AccelConfig_new == 0
\* with_afs_sel behind a skip of two bits instead of three
AccelConfig_with_afs_sel_bit2(b, v) == WithBits(b, 2, 2, IntoBits(AccelRangeVariants, v))
AccelConfig_with_afs_sel(b, v) == WithBits(b, 3, 2, IntoBits(AccelRangeVariants, v))
AccelConfig_with_za_st(b, v) == WithBits(b, 5, 1, BoolBits(v))
AccelConfig_with_ya_st(b, v) == WithBits(b, 6, 1, BoolBits(v))
AccelConfig_with_xa_st(b, v) == WithBits(b, 7, 1, BoolBits(v))

\* GyroConfig: skip(3) fs_sel(2) zg_st(1) yg_st(1) xg_st(1)
GyroConfig_new == 0
GyroConfig_with_fs_sel(b, v) == WithBits(b, 3, 2, IntoBits(GyroRangeVariants, v))
GyroConfig_with_zg_st(b, v) == WithBits(b, 5, 1, BoolBits(v))
GyroConfig_with_yg_st(b, v) == WithBits(b, 6, 1, BoolBits(v))
GyroConfig_with_xg_st(b, v) == WithBits(b, 7, 1, BoolBits(v))

\* generated getters
PwrMgmt1_clksel(b) == FromBits(ClockSourceVariants, GetBits(b, 0, 3))
PwrMgmt1_temp_dis(b) == BitsBool(GetBits(b, 3, 1))
PwrMgmt1_cycle(b) == BitsBool(GetBits(b, 5, 1))
PwrMgmt1_sleep(b) == BitsBool(GetBits(b, 6, 1))
PwrMgmt1_device_reset(b) == BitsBool(GetBits(b, 7, 1))

AccelConfig_afs_sel(b) == FromBits(AccelRangeVariants, GetBits(b, 3, 2))
AccelConfig_za_st(b) == BitsBool(GetBits(b, 5, 1))
AccelConfig_ya_st(b) == BitsBool(GetBits(b, 6, 1))
AccelConfig_xa_st(b) == BitsBool(GetBits(b, 7, 1))

GyroConfig_fs_sel(b) == FromBits(GyroRangeVariants, GetBits(b, 3, 2))
GyroConfig_zg_st(b) == BitsBool(GetBits(b, 5, 1))
GyroConfig_yg_st(b) == BitsBool(GetBits(b, 6, 1))
GyroConfig_xg_st(b) == BitsBool(GetBits(b, 7, 1))

\* the field assignments each struct can represent
PwrMgmt1Fields ==
    [clksel : ClockSource, temp_dis : Bool, cycle : Bool, sleep : Bool,
     device_reset : Bool]
AccelConfigFields == [afs_sel : AccelRange, za_st : Bool, ya_st : Bool, xa_st : Bool]
GyroConfigFields == [fs_sel : GyroRange, zg_st : Bool, yg_st : Bool, xg_st : Bool]

\* encode: new() followed by one builder per field; the result is .bytes[0]
PwrMgmt1_encode(f) ==
    PwrMgmt1_with_device_reset(
      PwrMgmt1_with_sleep(
        PwrMgmt1_with_cycle(
          PwrMgmt1_with_temp_dis(
            PwrMgmt1_with_clksel(PwrMgmt1_new, f.clksel),
            f.temp_dis), f.cycle), f.sleep), f.device_reset)
AccelConfig_encode(f) ==
    AccelConfig_with_xa_st(
      AccelConfig_with_ya_st(
        AccelConfig_with_za_st(
          AccelConfig_with_afs_sel(AccelConfig_new, f.afs_sel),
          f.za_st), f.ya_st), f.xa_st)
GyroConfig_encode(f) ==
    GyroConfig_with_xg_st(
      GyroConfig_with_yg_st(
        GyroConfig_with_zg_st(
          GyroConfig_with_fs_sel(GyroConfig_new, f.fs_sel),
          f.zg_st), f.yg_st), f.xg_st)

\* decode: one getter per field
PwrMgmt1_decode(b) ==
    [clksel |-> PwrMgmt1_clksel(b), temp_dis |-> PwrMgmt1_temp_dis(b),
     cycle |-> PwrMgmt1_cycle(b), sleep |-> PwrMgmt1_sleep(b),
     device_reset |-> PwrMgmt1_device_reset(b)]
AccelConfig_decode(b) ==
    [afs_sel |-> AccelConfig_afs_sel(b), za_st |-> AccelConfig_za_st(b),
     ya_st |-> AccelConfig_ya_st(b), xa_st |-> AccelConfig_xa_st(b)]
GyroConfig_decode(b) ==
    [fs_sel |-> GyroConfig_fs_sel(b), zg_st |-> GyroConfig_zg_st(b),
     yg_st |-> GyroConfig_yg_st(b), xg_st |-> GyroConfig_xg_st(b)]

(***************************************************************************)
(* Error taxonomy of src/src/errors.rs.                                    *)
(***************************************************************************)
\* faults the transport may report (embassy_rp::i2c::Error values)
I2cFaults == {"NoAcknowledge", "ArbitrationLoss"}

\* format!("{:?}", value) of a transport fault
DebugFmt(e) == "Abort(" \o e \o ")"

\* impl From<embassy_rp::i2c::Error> for DroneError
FromI2cError(e) == [kind |-> "I2c", msg |-> DebugFmt(e)]
InvalidChipId(id) == [kind |-> "InvalidChipId", val |-> id]
OkUnit == [kind |-> "Ok"]
OkU8(b) == [kind |-> "OkU8", val |-> b]
Pending == [kind |-> "Pending"]

(***************************************************************************)
(* Environment: the device behind the bus and the inputs of the calls.     *)
(***************************************************************************)
Registers == {GYRO_CONFIG, ACCEL_CONFIG, PWR_MGMT_1}

\* values PWR_MGMT_1 may hold when the driver is constructed: the power-on
\* value (sleep set), and values left behind by earlier firmware
InitPwrMgmt1 == {64, 239}

\* identity bytes the transport hands back in the full specification
IdBytes == {0, 103, 104, 105, 208, 255}

NoArg == [delay |-> 0, accel |-> "G2", gyro |-> "D250", source |-> "Internal8MHz"]

WriteEntry(reg, val, res) ==
    [t |-> "write", addr |-> ADDR, bytes |-> <<reg, val>>, res |-> res]
\* ReadEntry addressed to the 7-bit address instead of ADDR
ReadEntry_7bit_addr(reg, data, res) ==
    [t |-> "write_read", addr |-> DEFAULT_SLAVE_ADDR, bytes |-> <<reg>>,
     data |-> data, res |-> res]
ReadEntry(reg, data, res) ==
    [t |-> "write_read", addr |-> ADDR, bytes |-> <<reg>>, data |-> data, res |-> res]
TimerEntry(dur, waited) ==
    [t |-> "timer", dur |-> dur, waited |-> waited]

(***************************************************************************)
(* Driver facade, src/src/mpu6050.rs.                                      *)
(***************************************************************************)
InitOps == {"init_with_gyro_accel_range", "init"}
AccelOps == {"set_accel_range", "set_accel_range_with_self_test"}
GyroOps == {"set_gyro_range", "set_gyro_range_with_self_test"}
FacadeOps == InitOps \cup AccelOps \cup GyroOps
             \cup {"id", "wake", "verify", "set_clock_source"}

\* FirstStep with wake left out of the init operations
FirstStep_no_wake(o) ==
    CASE o \in InitOps -> "id_read"
      [] o = "wake" -> "wake_write"
      [] o \in {"id", "verify"} -> "id_read"
      [] o \in AccelOps -> "accel_write"
      [] o \in GyroOps -> "gyro_write"
      [] o = "set_clock_source" -> "clk_write"

\* the first suspension point of each operation
FirstStep(o) ==
    CASE o \in InitOps \cup {"wake"} -> "wake_write"
      [] o \in {"id", "verify"} -> "id_read"
      [] o \in AccelOps -> "accel_write"
      [] o \in GyroOps -> "gyro_write"
      [] o = "set_clock_source" -> "clk_write"

\* Continue with set_gyro_range ordered before set_accel_range
Continue_gyro_first(o, s) ==
    IF o \in InitOps
    THEN CASE s = "wake_delay" -> "id_read"
           [] s = "id_read" -> "gyro_write"
           [] s = "gyro_write" -> "accel_write"
           [] OTHER -> "returned"
    ELSE "returned"

\* Continue with verify left out of init_with_gyro_accel_range
Continue_no_verify(o, s) ==
    IF o \in InitOps
    THEN CASE s = "wake_delay" -> "accel_write"
           [] s = "accel_write" -> "gyro_write"
           [] OTHER -> "returned"
    ELSE "returned"

\* where the body of operation o goes once step s has returned Ok:
\* init_with_gyro_accel_range runs wake, verify, set_accel_range,
\* set_gyro_range in this order; every other body returns
Continue(o, s) ==
    IF o \in InitOps
    THEN CASE s = "wake_delay" -> "id_read"
           [] s = "id_read" -> "accel_write"
           [] s = "accel_write" -> "gyro_write"
           [] OTHER -> "returned"
    ELSE "returned"

IsOk(r) == r.kind \in {"Ok", "OkU8"}

\* the `?` after a step: an Err returns from the call at once, an Ok goes on
\* to the next step, or returns when the step was the last one
Finish(s, r) ==
    IF IsOk(r) /\ Continue(op, s) # "returned"
    THEN /\ pc' = Continue(op, s)
         /\ result' = result
    ELSE /\ pc' = "returned"
         /\ result' = r

\* TimerExpired for a timer that is created but not awaited
TimerExpired_not_awaited(e, d) == TRUE

\* Timer::after(delay).await resumes no earlier than delay after its start
TimerExpired(e, d) == e >= d

\* VerifyId without the comparison
VerifyId_unchecked(id) == OkUnit

\* VerifyId that rejects only the bytes below the expected one
VerifyId_below(id) ==
    IF id < DEFAULT_SLAVE_ADDR THEN InvalidChipId(id) ELSE OkUnit

\* verify: compare the identity byte with DEFAULT_SLAVE_ADDR
VerifyId(id) ==
    IF id # DEFAULT_SLAVE_ADDR THEN InvalidChipId(id) ELSE OkUnit

\* AccelConfigBytes without with_za_st(true)
AccelConfigBytes_no_za_st(o, r) ==
    IF o = "set_accel_range_with_self_test"
    THEN AccelConfig_with_ya_st(
           AccelConfig_with_xa_st(
             AccelConfig_with_afs_sel(AccelConfig_new, r), TRUE), TRUE)
    ELSE AccelConfig_with_afs_sel(AccelConfig_new, r)

\* the byte set_accel_range / set_accel_range_with_self_test put on the bus
AccelConfigBytes(o, r) ==
    IF o = "set_accel_range_with_self_test"
    THEN AccelConfig_with_za_st(
           AccelConfig_with_ya_st(
             AccelConfig_with_xa_st(
               AccelConfig_with_afs_sel(AccelConfig_new, r), TRUE), TRUE), TRUE)
    ELSE AccelConfig_with_afs_sel(AccelConfig_new, r)

\* GyroConfigBytes with set_gyro_range leaving the z self-test enabled
GyroConfigBytes_zg_st_left(o, r) ==
    IF o = "set_gyro_range_with_self_test"
    THEN GyroConfig_with_zg_st(
           GyroConfig_with_yg_st(
             GyroConfig_with_xg_st(
               GyroConfig_with_fs_sel(GyroConfig_new, r), TRUE), TRUE), TRUE)
    ELSE GyroConfig_with_zg_st(GyroConfig_with_fs_sel(GyroConfig_new, r), TRUE)

\* the byte set_gyro_range / set_gyro_range_with_self_test put on the bus
GyroConfigBytes(o, r) ==
    IF o = "set_gyro_range_with_self_test"
    THEN GyroConfig_with_zg_st(
           GyroConfig_with_yg_st(
             GyroConfig_with_xg_st(
               GyroConfig_with_fs_sel(GyroConfig_new, r), TRUE), TRUE), TRUE)
    ELSE GyroConfig_with_fs_sel(GyroConfig_new, r)

\* ClockSourceBytes that keeps the device asleep
ClockSourceBytes_sleep(source) ==
    PwrMgmt1_with_sleep(PwrMgmt1_with_clksel(PwrMgmt1_new, source), TRUE)

\* the byte set_clock_source puts on the bus
ClockSourceBytes(source) == PwrMgmt1_with_clksel(PwrMgmt1_new, source)

\* Write that issues the transaction again after a fault
Write_retry(s, reg, val) ==
    \/ /\ regs' = [regs EXCEPT ![reg] = val]
       /\ trace' = Append(trace, WriteEntry(reg, val, "ok"))
       /\ IF s = "wake_write"
          THEN pc' = "wake_delay" /\ result' = result
          ELSE Finish(s, OkUnit)
    \/ \E e \in I2cFaults :
         /\ regs' \in {regs, [regs EXCEPT ![reg] = val]}
         /\ trace' = Append(trace, WriteEntry(reg, val, e))
         /\ IF Len(trace) < 4
            THEN pc' = pc /\ result' = result
            ELSE pc' = "returned" /\ result' = FromI2cError(e)

\* Write whose fault in wake is looked at only after the delay
Write_fault_after_delay(s, reg, val) ==
    \/ /\ regs' = [regs EXCEPT ![reg] = val]
       /\ trace' = Append(trace, WriteEntry(reg, val, "ok"))
       /\ IF s = "wake_write"
          THEN pc' = "wake_delay" /\ result' = result
          ELSE Finish(s, OkUnit)
    \/ \E e \in I2cFaults :
         /\ regs' \in {regs, [regs EXCEPT ![reg] = val]}
         /\ trace' = Append(trace, WriteEntry(reg, val, e))
         /\ pc' = IF s = "wake_write" THEN "wake_delay" ELSE "returned"
         /\ result' = FromI2cError(e)

\* Mpu6050::write: one write_async of [reg, bits[0]] to ADDR.  A transaction
\* that succeeds stores the byte; one that fails may or may not have reached
\* the register, and its fault comes back wrapped by From.
Write(s, reg, val) ==
    \/ /\ regs' = [regs EXCEPT ![reg] = val]
       /\ trace' = Append(trace, WriteEntry(reg, val, "ok"))
       /\ IF s = "wake_write"
          THEN pc' = "wake_delay" /\ result' = result
          ELSE Finish(s, OkUnit)
    \/ \E e \in I2cFaults :
         /\ regs' \in {regs, [regs EXCEPT ![reg] = val]}
         /\ trace' = Append(trace, WriteEntry(reg, val, e))
         /\ pc' = "returned"
         /\ result' = FromI2cError(e)

\* Read that hands back the untouched buffer when the transaction fails
Read_fault_dropped(s, reg, bytes) ==
    \/ \E b \in bytes :
         /\ trace' = Append(trace, ReadEntry(reg, b, "ok"))
         /\ Finish(s, IF op = "id" THEN OkU8(b) ELSE VerifyId(b))
    \/ \E e \in I2cFaults :
         /\ trace' = Append(trace, ReadEntry(reg, 0, e))
         /\ Finish(s, IF op = "id" THEN OkU8(0) ELSE VerifyId(0))

\* Mpu6050::read: one write_read_async of [reg] to ADDR into a 1-byte buffer
Read(s, reg, bytes) ==
    \/ \E b \in bytes :
         /\ trace' = Append(trace, ReadEntry(reg, b, "ok"))
         /\ Finish(s, IF op = "id" THEN OkU8(b) ELSE VerifyId(b))
    \/ \E e \in I2cFaults :
         /\ trace' = Append(trace, ReadEntry(reg, 0, e))
         /\ pc' = "returned"
         /\ result' = FromI2cError(e)

Call(o, a) ==
    /\ pc = "idle"
    /\ op' = o
    /\ arg' = a
    /\ pc' = FirstStep(o)
    /\ result' = Pending
    /\ trace' = <<>>
    /\ elapsed' = 0
    /\ pre' = regs
    /\ UNCHANGED regs

CallId == Call("id", NoArg)

CallWake == \E d \in Delays : Call("wake", [NoArg EXCEPT !.delay = d])

CallInitWithGyroAccelRange ==
    \E d \in Delays, a \in AccelRange, g \in GyroRange :
        Call("init_with_gyro_accel_range",
             [NoArg EXCEPT !.delay = d, !.accel = a, !.gyro = g])

\* CallInit passing the second variant of each range as the default
CallInit_other_defaults ==
    \E d \in Delays :
        Call("init", [NoArg EXCEPT !.delay = d, !.accel = "G4", !.gyro = "D500"])

\* init: init_with_gyro_accel_range(delay, AccelRange::G2, GyroRange::D250)
CallInit ==
    \E d \in Delays :
        Call("init", [NoArg EXCEPT !.delay = d, !.accel = "G2", !.gyro = "D250"])

CallVerify == Call("verify", NoArg)

CallSetAccelRange ==
    \E a \in AccelRange : Call("set_accel_range", [NoArg EXCEPT !.accel = a])

CallSetAccelRangeWithSelfTest ==
    \E a \in AccelRange :
        Call("set_accel_range_with_self_test", [NoArg EXCEPT !.accel = a])

CallSetGyroRange ==
    \E g \in GyroRange : Call("set_gyro_range", [NoArg EXCEPT !.gyro = g])

CallSetGyroRangeWithSelfTest ==
    \E g \in GyroRange :
        Call("set_gyro_range_with_self_test", [NoArg EXCEPT !.gyro = g])

CallSetClockSource ==
    \E c \in ClockSource : Call("set_clock_source", [NoArg EXCEPT !.source = c])

\* wake: self.write(PWR_MGMT_1, &[0x0]).await?
WakeWrite ==
    /\ pc = "wake_write"
    /\ Write("wake_write", PWR_MGMT_1, 0)
    /\ elapsed' = 0
    /\ UNCHANGED <<pre, op, arg>>

\* time passes while Timer::after(delay) is pending
Tick ==
    /\ pc = "wake_delay"
    /\ elapsed < MaxElapsed
    /\ elapsed' = elapsed + 1
    /\ UNCHANGED <<regs, pre, op, arg, pc, result, trace>>

\* wake: Timer::after(delay).await; Ok(())
WakeTimer ==
    /\ pc = "wake_delay"
    /\ TimerExpired(elapsed, arg.delay)
    /\ trace' = Append(trace, TimerEntry(arg.delay, elapsed))
    /\ Finish("wake_delay", OkUnit)
    /\ UNCHANGED <<regs, pre, op, arg, elapsed>>

\* id: self.read(WHO_AM_I).await, and the comparison of verify
IdReadFrom(bytes) ==
    /\ pc = "id_read"
    /\ Read("id_read", WHO_AM_I, bytes)
    /\ UNCHANGED <<regs, pre, op, arg, elapsed>>

IdRead == IdReadFrom(IdBytes)

\* set_accel_range[_with_self_test]: self.write(ACCEL_CONFIG, ..).await?
AccelWrite ==
    /\ pc = "accel_write"
    /\ Write("accel_write", ACCEL_CONFIG, AccelConfigBytes(op, arg.accel))
    /\ UNCHANGED <<pre, op, arg, elapsed>>

\* set_gyro_range[_with_self_test]: self.write(GYRO_CONFIG, ..).await?
GyroWrite ==
    /\ pc = "gyro_write"
    /\ Write("gyro_write", GYRO_CONFIG, GyroConfigBytes(op, arg.gyro))
    /\ UNCHANGED <<pre, op, arg, elapsed>>

\* ClkWrite to register 0x1B instead of 0x6B
ClkWrite_gyro_config ==
    /\ pc = "clk_write"
    /\ Write("clk_write", GYRO_CONFIG, ClockSourceBytes(arg.source))
    /\ UNCHANGED <<pre, op, arg, elapsed>>

\* set_clock_source: self.write(PWR_MGMT_1, &pwr_mgmt1.bytes).await?
ClkWrite ==
    /\ pc = "clk_write"
    /\ Write("clk_write", PWR_MGMT_1, ClockSourceBytes(arg.source))
    /\ UNCHANGED <<pre, op, arg, elapsed>>

\* the caller takes the Result; the facade is free for the next call
Return ==
    /\ pc = "returned"
    /\ pc' = "idle"
    /\ op' = "none"
    /\ arg' = NoArg
    /\ result' = Pending
    /\ trace' = <<>>
    /\ elapsed' = 0
    /\ pre' = regs
    /\ UNCHANGED regs

\* Cancel with a drop handler that puts the device back to sleep
Cancel_back_to_sleep ==
    /\ pc = "wake_delay"
    /\ pc' = "cancelled"
    /\ regs' = [regs EXCEPT ![PWR_MGMT_1] = 64]
    /\ UNCHANGED <<pre, op, arg, result, trace, elapsed>>

\* the caller drops the future of the call while wake is suspended in
\* Timer::after(delay).await; nothing in the body runs on drop
Cancel ==
    /\ pc = "wake_delay"
    /\ pc' = "cancelled"
    /\ UNCHANGED <<regs, pre, op, arg, result, trace, elapsed>>

\* the dropped future releases its borrow; the facade is free for the next call
Drop ==
    /\ pc = "cancelled"
    /\ pc' = "idle"
    /\ op' = "none"
    /\ arg' = NoArg
    /\ result' = Pending
    /\ trace' = <<>>
    /\ elapsed' = 0
    /\ pre' = regs
    /\ UNCHANGED regs

\* Mpu6050::new_async wraps the handle; the device holds whatever it held
Init ==
    /\ regs \in {[r \in Registers |->
                    IF r = PWR_MGMT_1 THEN p ELSE 0] : p \in InitPwrMgmt1}
    /\ pre = regs
    /\ op = "none"
    /\ arg = NoArg
    /\ pc = "idle"
    /\ result = Pending
    /\ trace = <<>>
    /\ elapsed = 0

Next ==
    \/ CallId
    \/ CallWake
    \/ CallInitWithGyroAccelRange
    \/ CallInit
    \/ CallVerify
    \/ CallSetAccelRange
    \/ CallSetAccelRangeWithSelfTest
    \/ CallSetGyroRange
    \/ CallSetGyroRangeWithSelfTest
    \/ CallSetClockSource
    \/ WakeWrite
    \/ Tick
    \/ WakeTimer
    \/ IdRead
    \/ AccelWrite
    \/ GyroWrite
    \/ ClkWrite
    \/ Return
    \/ Cancel
    \/ Drop

Spec == Init /\ [][Next]_vars

(***************************************************************************)
(* The two init operations alone, with every transport operation and the   *)
(* timer of wake completing eventually; the caller does not cancel.        *)
(***************************************************************************)
NextInit ==
    \/ CallInitWithGyroAccelRange
    \/ CallInit
    \/ WakeWrite
    \/ Tick
    \/ WakeTimer
    \/ IdRead
    \/ AccelWrite
    \/ GyroWrite
    \/ Return

Completion ==
    /\ WF_vars(WakeWrite)
    /\ WF_vars(Tick)
    /\ WF_vars(WakeTimer)
    /\ WF_vars(IdRead)
    /\ WF_vars(AccelWrite)
    /\ WF_vars(GyroWrite)

SpecInitLive == Init /\ [][NextInit]_vars /\ Completion

(***************************************************************************)
(* id and verify alone, against a transport that may hand back every byte. *)
(***************************************************************************)
IdReadAnyByte == IdReadFrom(Byte)

NextVerify ==
    \/ CallId
    \/ CallVerify
    \/ IdReadAnyByte
    \/ Return

SpecVerify == Init /\ [][NextVerify]_vars

(***************************************************************************)
(* The three codecs alone: a field assignment is encoded to its byte and   *)
(* the byte is decoded again.  op names the struct, arg holds the fields,  *)
(* result the byte and then the decoded fields.                            *)
(***************************************************************************)
Codecs == {"PwrMgmt1", "AccelConfig", "GyroConfig"}

InitCodec ==
    /\ regs = [r \in Registers |-> 0]
    /\ pre = regs
    /\ op \in Codecs
    /\ arg \in CASE op = "PwrMgmt1" -> PwrMgmt1Fields
                [] op = "AccelConfig" -> AccelConfigFields
                [] op = "GyroConfig" -> GyroConfigFields
    /\ pc = "fields"
    /\ result = Pending
    /\ trace = <<>>
    /\ elapsed = 0

Encode ==
    /\ pc = "fields"
    /\ pc' = "encoded"
    /\ result' = [kind |-> "bytes",
                  val |-> CASE op = "PwrMgmt1" -> PwrMgmt1_encode(arg)
                            [] op = "AccelConfig" -> AccelConfig_encode(arg)
                            [] op = "GyroConfig" -> GyroConfig_encode(arg)]
    /\ UNCHANGED <<regs, pre, op, arg, trace, elapsed>>

Decode ==
    /\ pc = "encoded"
    /\ pc' = "decoded"
    /\ result' = [kind |-> "fields",
                  bytes |-> result.val,
                  val |-> CASE op = "PwrMgmt1" -> PwrMgmt1_decode(result.val)
                            [] op = "AccelConfig" -> AccelConfig_decode(result.val)
                            [] op = "GyroConfig" -> GyroConfig_decode(result.val)]
    /\ UNCHANGED <<regs, pre, op, arg, trace, elapsed>>

NextCodec ==
    \/ Encode
    \/ Decode

SpecCodec == InitCodec /\ [][NextCodec]_vars

TypeOK ==
    /\ regs \in [Registers -> Byte]
    /\ op \in FacadeOps \cup {"none"}
    /\ pc \in {"idle", "wake_write", "wake_delay", "id_read", "accel_write",
               "gyro_write", "clk_write", "returned", "cancelled"}
    /\ elapsed \in 0..MaxElapsed

(***************************************************************************)
(* Properties.                                                             *)
(***************************************************************************)
\* the transport operations of the call, without the timer expiries
IsBusOp(e) == e.t \in {"write", "write_read"}
BusOps(tr) == SelectSeq(tr, IsBusOp)
Failed(e) == IsBusOp(e) /\ e.res # "ok"
IsWriteTo(e, reg) == e.t = "write" /\ e.bytes[1] = reg
IsReadOf(e, reg) == e.t = "write_read" /\ e.bytes = <<reg>>

\* range codes of the data sheet: bits 3-4 of ACCEL_CONFIG and GYRO_CONFIG
AccelCode == [G2 |-> 0, G4 |-> 1, G8 |-> 2, G16 |-> 3]
GyroCode == [D250 |-> 0, D500 |-> 1, D1000 |-> 2, D2000 |-> 3]

\* step i of init_with_gyro_accel_range, as a transaction on the bus
IsInitStep(e, i) ==
    CASE i = 1 -> IsWriteTo(e, PWR_MGMT_1)
      [] i = 2 -> IsReadOf(e, WHO_AM_I)
      [] i = 3 -> IsWriteTo(e, ACCEL_CONFIG)
      [] i = 4 -> IsWriteTo(e, GYRO_CONFIG)
      [] OTHER -> FALSE

\* step i of the call in flight has returned Ok: wake after its write
\* succeeded and its timer expired, verify after it read the expected
\* identity, set_accel_range after its write succeeded
InitStepOk(i) ==
    LET b == BusOps(trace) IN
    /\ b[i].res = "ok"
    /\ i = 1 => Len(trace) >= 2 /\ trace[2].t = "timer"
    /\ i = 2 => b[i].data = 104

\* C1: in every execution of init_with_gyro_accel_range (also when entered
\* through init) the bus transactions issued so far are, in this order, the
\* write of PWR_MGMT_1, the read of WHO_AM_I, the write of ACCEL_CONFIG and
\* the write of GYRO_CONFIG, and the transaction of a step is on the bus
\* only if the step before it has returned success.
C1_InitOrder ==
    op \in InitOps =>
        LET b == BusOps(trace) IN
        /\ Len(b) <= 4
        /\ \A i \in 1..Len(b) :
             /\ IsInitStep(b[i], i)
             /\ i > 1 => InitStepOk(i - 1)

C1_Witness ==
    /\ op = "init_with_gyro_accel_range"
    /\ pc = "returned"
    /\ result = OkUnit
    /\ Len(BusOps(trace)) = 4
    /\ arg.accel = "G8"
    /\ arg.gyro = "D1000"

\* C2: when init_with_gyro_accel_range reads an identity byte b other than
\* 0x68 (every transaction succeeding), the call has returned
\* InvalidChipId(b) and its whole activity is one successful write of
\* [PWR_MGMT_1, 0], one expiry of the timer and that one identity read: no
\* write to ACCEL_CONFIG or GYRO_CONFIG is issued.
C2_VerifyMismatchStopsInit ==
    \A i \in 1..Len(trace) :
        (/\ op \in InitOps
         /\ IsReadOf(trace[i], WHO_AM_I)
         /\ trace[i].res = "ok"
         /\ trace[i].data # 104)
        => /\ pc = "returned"
           /\ result = [kind |-> "InvalidChipId", val |-> trace[i].data]
           /\ Len(trace) = 3
           /\ i = 3
           /\ trace[1] = WriteEntry(PWR_MGMT_1, 0, "ok")
           /\ trace[2].t = "timer"
           /\ regs[ACCEL_CONFIG] = pre[ACCEL_CONFIG]
           /\ regs[GYRO_CONFIG] = pre[GYRO_CONFIG]

C2_Witness ==
    /\ op = "init_with_gyro_accel_range"
    /\ pc = "returned"
    /\ result = [kind |-> "InvalidChipId", val |-> 105]
    /\ Len(trace) = 3
    /\ pre[ACCEL_CONFIG] # 0

\* C3: verify succeeds exactly when the byte read from WHO_AM_I is 0x68, and
\* for every other byte b in 0..255 it returns InvalidChipId(b).
C3_VerifyIffExpected ==
    (/\ op = "verify"
     /\ pc = "returned"
     /\ trace[1].res = "ok")
    => /\ Len(trace) = 1
       /\ trace[1].data \in Byte
       /\ result = OkUnit <=> trace[1].data = 104
       /\ trace[1].data # 104 =>
            result = [kind |-> "InvalidChipId", val |-> trace[1].data]

C3_Witness ==
    /\ op = "verify"
    /\ pc = "returned"
    /\ trace[1].res = "ok"
    /\ trace[1].data = 105
    /\ result.kind = "InvalidChipId"

\* C4: wake(delay) issues exactly one transaction, the write of
\* [PWR_MGMT_1, 0x00] to ADDR; while it is suspended that write is all it
\* has done, and when it returns Ok the timer has expired after the write
\* and no less than delay after it was started.
C4_WakeWriteThenDelay ==
    op = "wake" =>
        /\ pc = "wake_write" => trace = <<>>
        /\ pc = "wake_delay" => trace = <<WriteEntry(PWR_MGMT_1, 0, "ok")>>
        /\ pc = "returned" =>
             /\ Len(BusOps(trace)) = 1
             /\ trace[1].t = "write"
             /\ trace[1].addr = ADDR
             /\ trace[1].bytes = <<107, 0>>
             /\ result = OkUnit =>
                  /\ Len(trace) = 2
                  /\ trace[1].res = "ok"
                  /\ trace[2].t = "timer"
                  /\ trace[2].dur = arg.delay
                  /\ trace[2].waited >= arg.delay
             /\ result # OkUnit => Len(trace) = 1

C4_Witness ==
    /\ op = "wake"
    /\ pc = "returned"
    /\ result = OkUnit
    /\ arg.delay = MaxDelay
    /\ arg.delay > 0
    /\ trace[2].waited = arg.delay

\* C5: in every facade operation a failed transport operation is the last
\* thing the call does: nothing is issued after it (no retry, no later step
\* of init, no compensating write), the call has returned the error of that
\* transaction, and every register written by an earlier successful step
\* still holds the value written.
C5_FirstErrorAborts ==
    \A i \in 1..Len(trace) :
        Failed(trace[i]) =>
            /\ i = Len(trace)
            /\ pc = "returned"
            /\ result = [kind |-> "I2c", msg |-> "Abort(" \o trace[i].res \o ")"]
            /\ \A j \in 1..(i - 1) :
                 (trace[j].t = "write" /\ trace[j].res = "ok")
                 => regs[trace[j].bytes[1]] = trace[j].bytes[2]

C5_Witness ==
    /\ op = "init_with_gyro_accel_range"
    /\ pc = "returned"
    /\ Len(trace) = 3
    /\ Failed(trace[3])
    /\ pre[PWR_MGMT_1] = 239
    /\ regs[PWR_MGMT_1] = 0

\* C6: the two kinds of error are never confused and never suppressed: a
\* call with a failed transport operation has returned DroneError::I2c
\* (never InvalidChipId, never Ok), a call returns I2c only for a failed
\* transport operation, and InvalidChipId(b) is returned only by verify or
\* by init, after an identity read that itself succeeded with a byte b
\* other than 0x68.
C6_ErrorKindsDistinct ==
    /\ (\E i \in 1..Len(trace) : Failed(trace[i]))
       => pc = "returned" /\ result.kind = "I2c"
    /\ pc = "returned" =>
         /\ result.kind \in {"Ok", "OkU8", "I2c", "InvalidChipId"}
         /\ result.kind = "I2c" => Failed(trace[Len(trace)])
         /\ result.kind = "InvalidChipId" =>
              /\ op \in InitOps \cup {"verify"}
              /\ IsReadOf(trace[Len(trace)], WHO_AM_I)
              /\ trace[Len(trace)].res = "ok"
              /\ trace[Len(trace)].data # 104
              /\ result.val = trace[Len(trace)].data

C6_Witness ==
    /\ op = "init"
    /\ pc = "returned"
    /\ result.kind = "I2c"
    /\ Len(trace) = 3
    /\ IsReadOf(trace[3], WHO_AM_I)
    /\ trace[3].res = "NoAcknowledge"

\* a byte of the shape "self-test bits 5-7 all set, bits 3-4 = code, bits
\* 0-2 zero"
SelfTestShape(byte, code) ==
    /\ byte \div 32 = 7
    /\ (byte \div 8) % 4 = code
    /\ byte % 8 = 0

\* C7: for every range r, set_accel_range_with_self_test(r) issues one
\* write, to ACCEL_CONFIG, of a byte with bits 5-7 set, bits 3-4 the code of
\* r and bits 0-2 zero; set_gyro_range_with_self_test(r) issues one write of
\* the byte of the same shape to GYRO_CONFIG.
C7_SelfTestByte ==
    /\ op = "set_accel_range_with_self_test" =>
         /\ Len(trace) <= 1
         /\ pc = "returned" => Len(trace) = 1
         /\ \A i \in 1..Len(trace) :
              /\ IsWriteTo(trace[i], ACCEL_CONFIG)
              /\ SelfTestShape(trace[i].bytes[2], AccelCode[arg.accel])
    /\ op = "set_gyro_range_with_self_test" =>
         /\ Len(trace) <= 1
         /\ pc = "returned" => Len(trace) = 1
         /\ \A i \in 1..Len(trace) :
              /\ IsWriteTo(trace[i], GYRO_CONFIG)
              /\ SelfTestShape(trace[i].bytes[2], GyroCode[arg.gyro])

C7_Witness ==
    /\ op = "set_accel_range_with_self_test"
    /\ pc = "returned"
    /\ result = OkUnit
    /\ arg.accel = "G8"
    /\ trace[1].bytes = <<28, 240>>
    /\ regs[ACCEL_CONFIG] = 240

\* C8: whatever the registers held before, a successful set_accel_range(r)
\* leaves ACCEL_CONFIG with bits 3-4 the code of r and every other bit, the
\* three self-test bits included, zero; set_gyro_range(r) does the same for
\* GYRO_CONFIG.
C8_RangeFullOverwrite ==
    (pc = "returned" /\ result = OkUnit) =>
        /\ op = "set_accel_range" =>
             regs[ACCEL_CONFIG] = 8 * AccelCode[arg.accel]
        /\ op = "set_gyro_range" =>
             regs[GYRO_CONFIG] = 8 * GyroCode[arg.gyro]

C8_Witness ==
    /\ op = "set_accel_range"
    /\ pc = "returned"
    /\ result = OkUnit
    /\ pre[ACCEL_CONFIG] = 240
    /\ arg.accel = "G4"
    /\ regs[ACCEL_CONFIG] = 8

\* clock-source codes of the data sheet
ClockCode ==
    [Internal8MHz |-> 0, PllXAxis |-> 1, PllYAxis |-> 2, PllZAxis |-> 3,
     PllExternal32768kHz |-> 4, PllExternal192kHz |-> 5, Reserved |-> 6,
     StopClockReset |-> 7]

\* C9: whatever PWR_MGMT_1 held before, after a successful
\* set_clock_source(source) it decodes to clksel = source with temp_dis,
\* cycle, sleep and device_reset all false, and the byte is the code of
\* source.
C9_ClockSourceFullOverwrite ==
    (op = "set_clock_source" /\ pc = "returned" /\ result = OkUnit) =>
        /\ PwrMgmt1_decode(regs[PWR_MGMT_1]) =
             [clksel |-> arg.source, temp_dis |-> FALSE, cycle |-> FALSE,
              sleep |-> FALSE, device_reset |-> FALSE]
        /\ regs[PWR_MGMT_1] = ClockCode[arg.source]

C9_Witness ==
    /\ op = "set_clock_source"
    /\ pc = "returned"
    /\ result = OkUnit
    /\ pre[PWR_MGMT_1] = 239
    /\ arg.source = "PllZAxis"
    /\ regs[PWR_MGMT_1] = 3

\* C10: each codec round-trips: for every representable assignment of the
\* fields of PwrMgmt1, AccelConfig and GyroConfig, decoding the encoded byte
\* gives back the same assignment.
C10_RoundTrip ==
    pc = "decoded" =>
        /\ result.bytes \in Byte
        /\ result.val = arg

C10_Witness ==
    /\ op = "PwrMgmt1"
    /\ pc = "decoded"
    /\ arg.clksel = "StopClockReset"
    /\ arg.cycle
    /\ arg.device_reset
    /\ ~arg.sleep
    /\ ~arg.temp_dis
    /\ result.bytes = 167

BoolCode == [b \in Bool |-> IF b THEN 1 ELSE 0]

AllZeroPwrMgmt1 ==
    [clksel |-> "Internal8MHz", temp_dis |-> FALSE, cycle |-> FALSE,
     sleep |-> FALSE, device_reset |-> FALSE]

\* C11: the all-zero PwrMgmt1 with device_reset set to true encodes to
\* 0b1000_0000 (128), and the all-zero PwrMgmt1 with clksel set to PllXAxis
\* encodes to 0b0000_0001 (1).
C11_ResetAndClkselBytes ==
    (op = "PwrMgmt1" /\ pc = "encoded") =>
        /\ arg = [AllZeroPwrMgmt1 EXCEPT !.device_reset = TRUE]
             => result.val = 128
        /\ arg = [AllZeroPwrMgmt1 EXCEPT !.clksel = "PllXAxis"]
             => result.val = 1

C11_Witness ==
    /\ op = "PwrMgmt1"
    /\ pc = "encoded"
    /\ arg = [AllZeroPwrMgmt1 EXCEPT !.device_reset = TRUE]
    /\ result.val = 128

\* C12 as stated: the PwrMgmt1 byte holds, from the most significant bit
\* down, clksel (bits 7-5), temp_dis (bit 4), reserved (bit 3), cycle
\* (bit 2), sleep (bit 1), device_reset (bit 0).
C12_PackedMsbFirst ==
    (op = "PwrMgmt1" /\ pc = "encoded") =>
        result.val = 32 * ClockCode[arg.clksel] + 16 * BoolCode[arg.temp_dis]
                     + 4 * BoolCode[arg.cycle] + 2 * BoolCode[arg.sleep]
                     + BoolCode[arg.device_reset]

\* C12 amended: the PwrMgmt1 byte holds, from the least significant bit up,
\* clksel (bits 0-2), temp_dis (bit 3), reserved (bit 4, zero), cycle
\* (bit 5), sleep (bit 6), device_reset (bit 7).
C12_PackedLsbFirst ==
    (op = "PwrMgmt1" /\ pc = "encoded") =>
        result.val = ClockCode[arg.clksel] + 8 * BoolCode[arg.temp_dis]
                     + 32 * BoolCode[arg.cycle] + 64 * BoolCode[arg.sleep]
                     + 128 * BoolCode[arg.device_reset]

C12_Witness ==
    /\ op = "PwrMgmt1"
    /\ pc = "encoded"
    /\ arg = [clksel |-> "PllZAxis", temp_dis |-> TRUE, cycle |-> FALSE,
              sleep |-> TRUE, device_reset |-> FALSE]
    /\ result.val = 75

\* C13: in every byte a facade operation writes, the reserved bit of
\* PWR_MGMT_1 (bit 4) and the reserved bits of ACCEL_CONFIG and GYRO_CONFIG
\* (bits 0-2) are zero.
C13_ReservedBitsZero ==
    \A i \in 1..Len(trace) :
        trace[i].t = "write" =>
            /\ trace[i].bytes[1] \in Registers
            /\ trace[i].bytes[1] = PWR_MGMT_1
                 => (trace[i].bytes[2] \div 16) % 2 = 0
            /\ trace[i].bytes[1] \in {ACCEL_CONFIG, GYRO_CONFIG}
                 => trace[i].bytes[2] % 8 = 0

C13_Witness ==
    /\ op = "set_accel_range_with_self_test"
    /\ pc = "returned"
    /\ arg.accel = "G16"
    /\ trace[1].bytes = <<28, 248>>

\* C14: every bus transaction of every facade operation, register write or
\* write-then-read, is addressed to the one constant 0xD0, and verify (alone
\* or inside init) rejects the identity byte exactly when it differs from
\* the constant 0x68, whatever the arguments and the earlier operations.
C14_FixedAddressAndIdentity ==
    \A i \in 1..Len(trace) :
        IsBusOp(trace[i]) =>
            /\ trace[i].addr = 208
            /\ (/\ op \in InitOps \cup {"verify"}
                /\ trace[i].t = "write_read"
                /\ trace[i].res = "ok")
               => (trace[i].data # 104
                   <=> (pc = "returned" /\ result.kind = "InvalidChipId"))

C14_Witness ==
    /\ op = "init_with_gyro_accel_range"
    /\ pc = "returned"
    /\ result = OkUnit
    /\ arg.delay = 1
    /\ arg.accel = "G16"
    /\ pre[PWR_MGMT_1] = 3
    /\ \A i \in {1, 3, 4, 5} : trace[i].addr = 208

\* the state of the initialization state machine the call in flight is in
InitState ==
    CASE op \notin InitOps -> "NoCall"
      [] pc \in {"wake_write", "wake_delay"} -> "Unpowered"
      [] pc = "id_read" -> "Awake"
      [] pc \in {"accel_write", "gyro_write"} -> "Verified"
      [] pc = "returned" /\ result = OkUnit -> "Configured"
      [] pc = "returned" /\ result.kind \in {"I2c", "InvalidChipId"} -> "Failed"
      [] OTHER -> "Undefined"

\* the transitions of the state machine; a terminal state is left only by
\* the end of the call
InitTransitions ==
    {<<"NoCall", "Unpowered">>,
     <<"Unpowered", "Unpowered">>, <<"Unpowered", "Awake">>,
     <<"Unpowered", "Failed">>,
     <<"Awake", "Verified">>, <<"Awake", "Failed">>,
     <<"Verified", "Verified">>, <<"Verified", "Configured">>,
     <<"Verified", "Failed">>,
     <<"Configured", "NoCall">>, <<"Failed", "NoCall">>}

InitStateStep ==
    /\ <<InitState, InitState'>> \in InitTransitions
    /\ InitState \in {"Configured", "Failed"} => regs' = regs

\* C15: when every transport operation and the timer complete, every call
\* of init_with_gyro_accel_range reaches a terminal state, Configured or
\* Failed; the call moves only along Unpowered -> Awake -> Verified ->
\* Configured or from a non-terminal state to Failed, so Configured is
\* reached only through Awake and then Verified, and a terminal state is
\* left by no step of the call, only by its end.
C15_InitTerminates ==
    /\ (InitState = "Unpowered") ~> (InitState \in {"Configured", "Failed"})
    /\ [][InitStateStep]_vars

C15_Witness ==
    /\ op = "init_with_gyro_accel_range"
    /\ InitState = "Configured"
    /\ Len(trace) = 5
    /\ arg.delay = 1
    /\ elapsed = 2

\* the bus transactions init_with_gyro_accel_range(d, a, g) issues, by position
InitWithBusOp(i, a, g, res, data) ==
    CASE i = 1 -> [t |-> "write", addr |-> 208, bytes |-> <<107, 0>>, res |-> res]
      [] i = 2 -> [t |-> "write_read", addr |-> 208, bytes |-> <<117>>,
                   data |-> data, res |-> res]
      [] i = 3 -> [t |-> "write", addr |-> 208,
                   bytes |-> <<28, 8 * AccelCode[a]>>, res |-> res]
      [] i = 4 -> [t |-> "write", addr |-> 208,
                   bytes |-> <<27, 8 * GyroCode[g]>>, res |-> res]

\* the call in flight is a run of init_with_gyro_accel_range(d, a, g): its
\* transactions are the ones above, the timer of duration d expires between
\* the first and the second, and its position and result are the ones the
\* outcomes of the transactions so far determine
InitWithRun(d, a, g) ==
    LET b == BusOps(trace)
        n == Len(b)
        stopped ==
            \/ n >= 1 /\ b[n].res # "ok"
            \/ n = 2 /\ b[2].data # 104
            \/ n = 4
    IN
    /\ n <= 4
    /\ \A i \in 1..n :
         b[i] = InitWithBusOp(i, a, g, b[i].res,
                              IF i = 2 THEN b[i].data ELSE 0)
    /\ \A i \in 1..Len(trace) :
         trace[i].t = "timer" => i = 2 /\ trace[i].dur = d
    /\ Len(trace) >= 2 => trace[2].t = "timer"
    /\ stopped =>
         /\ pc = "returned"
         /\ result = IF b[n].res # "ok"
                     THEN [kind |-> "I2c", msg |-> "Abort(" \o b[n].res \o ")"]
                     ELSE IF n = 2
                     THEN [kind |-> "InvalidChipId", val |-> b[2].data]
                     ELSE [kind |-> "Ok"]
    /\ ~stopped =>
         /\ result = [kind |-> "Pending"]
         /\ pc \in CASE Len(trace) = 0 -> {"wake_write"}
                     [] Len(trace) = 1 -> {"wake_delay", "cancelled"}
                     [] Len(trace) = 2 -> {"id_read"}
                     [] Len(trace) = 3 -> {"accel_write"}
                     [] Len(trace) = 4 -> {"gyro_write"}
                     [] OTHER -> {}

\* C16: init(delay) behaves as init_with_gyro_accel_range(delay, G2, D250):
\* a call of either is, at every point, the run that the outcomes of its
\* transactions determine, with the same transactions, the same bytes
\* (ACCEL_CONFIG and GYRO_CONFIG written with range code 0 by init) and the
\* same result.
C16_InitIsInitWithDefaults ==
    /\ op = "init_with_gyro_accel_range"
         => InitWithRun(arg.delay, arg.accel, arg.gyro)
    /\ op = "init" => InitWithRun(arg.delay, "G2", "D250")

C16_Witness ==
    /\ op = "init"
    /\ pc = "returned"
    /\ result = OkUnit
    /\ pre[ACCEL_CONFIG] = 248
    /\ pre[GYRO_CONFIG] = 248
    /\ trace[4].bytes = <<28, 0>>
    /\ trace[5].bytes = <<27, 0>>
    /\ regs = [r \in Registers |-> 0]

\* C17: a call cancelled during the delay of wake (wake alone or inside
\* init) leaves PWR_MGMT_1 at 0x00 and ACCEL_CONFIG and GYRO_CONFIG as they
\* were before the call, has issued nothing but the write of wake, and
\* issues nothing more: its only step is the release of the facade, with
\* the registers unchanged.
C17_CancelLeavesRegisters ==
    /\ [](pc = "cancelled" =>
            /\ op \in InitOps \cup {"wake"}
            /\ regs[PWR_MGMT_1] = 0
            /\ regs[ACCEL_CONFIG] = pre[ACCEL_CONFIG]
            /\ regs[GYRO_CONFIG] = pre[GYRO_CONFIG]
            /\ trace = <<WriteEntry(PWR_MGMT_1, 0, "ok")>>)
    /\ [][pc = "cancelled" => (pc' = "idle" /\ regs' = regs /\ trace' = <<>>)]_vars

C17_Witness ==
    /\ pc = "cancelled"
    /\ op = "init_with_gyro_accel_range"
    /\ arg.delay = 1
    /\ elapsed = 0
    /\ pre[PWR_MGMT_1] = 239
    /\ pre[ACCEL_CONFIG] = 240
    /\ regs[ACCEL_CONFIG] = 240

IsWrite(e) == e.t = "write"
IsWriteRead(e) == e.t = "write_read"

\* C18: whenever init_with_gyro_accel_range(delay, a, g) returns success,
\* PWR_MGMT_1 holds 0x00, ACCEL_CONFIG the code of a in bits 3-4 and
\* GYRO_CONFIG the code of g in bits 3-4 with every other bit clear, the
\* identity byte read was 0x68, and the call issued exactly three writes and
\* one write-then-read.
C18_InitSuccessState ==
    (op = "init_with_gyro_accel_range" /\ pc = "returned" /\ result = OkUnit) =>
        /\ regs[PWR_MGMT_1] = 0
        /\ regs[ACCEL_CONFIG] = 8 * AccelCode[arg.accel]
        /\ regs[GYRO_CONFIG] = 8 * GyroCode[arg.gyro]
        /\ Len(SelectSeq(trace, IsWrite)) = 3
        /\ Len(SelectSeq(trace, IsWriteRead)) = 1
        /\ \A i \in 1..Len(trace) :
             IsWriteRead(trace[i]) =>
                 /\ trace[i].bytes = <<117>>
                 /\ trace[i].res = "ok"
                 /\ trace[i].data = 104

C18_Witness ==
    /\ op = "init_with_gyro_accel_range"
    /\ pc = "returned"
    /\ result = OkUnit
    /\ arg.accel = "G16"
    /\ arg.gyro = "D500"
    /\ pre = [r \in Registers |-> IF r = PWR_MGMT_1 THEN 64 ELSE 0]
    /\ regs[ACCEL_CONFIG] = 24
    /\ regs[GYRO_CONFIG] = 8

\* the registers an operation may write
OwnRegisters(o) ==
    CASE o \in {"wake", "set_clock_source"} -> {PWR_MGMT_1}
      [] o \in AccelOps -> {ACCEL_CONFIG}
      [] o \in GyroOps -> {GYRO_CONFIG}
      [] o \in {"id", "verify"} -> {}
      [] OTHER -> Registers

\* C19: each facade operation touches only its own register: id and verify
\* issue one write-then-read of WHO_AM_I and no write and leave every
\* register as it was; wake and set_clock_source write only PWR_MGMT_1, the
\* accel setters only ACCEL_CONFIG, the gyro setters only GYRO_CONFIG, and
\* every other register keeps the value it had before the call.
C19_OwnRegisterOnly ==
    op \in FacadeOps =>
        /\ \A r \in Registers \ OwnRegisters(op) : regs[r] = pre[r]
        /\ \A i \in 1..Len(trace) :
             /\ IsWrite(trace[i]) => trace[i].bytes[1] \in OwnRegisters(op)
             /\ IsWriteRead(trace[i]) => trace[i].bytes = <<117>>
        /\ op \in {"id", "verify"} =>
             /\ Len(trace) <= 1
             /\ pc = "returned" => Len(trace) = 1
             /\ \A i \in 1..Len(trace) : IsWriteRead(trace[i])
        /\ op \notin InitOps \cup {"id", "verify"} =>
             \A i \in 1..Len(trace) : ~IsWriteRead(trace[i])

C19_Witness ==
    /\ op = "set_clock_source"
    /\ pc = "returned"
    /\ result = OkUnit
    /\ arg.source = "PllYAxis"
    /\ pre[PWR_MGMT_1] = 64
    /\ regs[PWR_MGMT_1] = 2
    /\ regs[ACCEL_CONFIG] = 240
    /\ regs[GYRO_CONFIG] = 248

\* C20: when the write of PWR_MGMT_1 in wake fails, wake has returned the
\* transport error with that write as its whole activity and no time spent
\* in the delay; the delay is entered, and the timer expires, only after a
\* successful write.
C20_NoDelayAfterFailedWrite ==
    op \in InitOps \cup {"wake"} =>
        /\ pc = "wake_delay" => trace = <<WriteEntry(PWR_MGMT_1, 0, "ok")>>
        /\ \A i \in 1..Len(trace) :
             trace[i].t = "timer" =>
                 i = 2 /\ trace[1] = WriteEntry(PWR_MGMT_1, 0, "ok")
        /\ (Len(trace) >= 1 /\ trace[1].res # "ok") =>
             /\ pc = "returned"
             /\ Len(trace) = 1
             /\ elapsed = 0
             /\ result = [kind |-> "I2c", msg |-> "Abort(" \o trace[1].res \o ")"]

C20_Witness ==
    /\ op = "wake"
    /\ pc = "returned"
    /\ arg.delay = 1
    /\ trace = <<WriteEntry(PWR_MGMT_1, 0, "ArbitrationLoss")>>
    /\ result.kind = "I2c"
    /\ elapsed = 0

====
